---- MODULE Spec2Model ----
(***************************************************************************)
(* Model of libgreat's LPC43xx GPIO driver                                 *)
(* (firmware/include/drivers/gpio.h: the API header followed by the        *)
(* driver's implementation).                                               *)
(*                                                                         *)
(* A 32-bit word is modelled as the set of its set bit positions, so that  *)
(* AND is intersection, OR is union, XOR is symmetric difference and NOT   *)
(* is the complement in 0..31.  No arithmetic is done on words by the      *)
(* driver except 1 << pin, which is modelled by Shl1.                      *)
(*                                                                         *)
(* The sequential specification Spec is a test fixture around the driver:  *)
(* Init picks the logical pin under test (tport, tpin) and the prior       *)
(* contents of the registers, and every action is one whole API call on    *)
(* that port / pin with freely chosen masks and values.                    *)
(***************************************************************************)
EXTENDS Integers, Sequences, FiniteSets, TLC

(* ------------------------------------------------------------------ *)
(* Program constants                                                    *)
(* ------------------------------------------------------------------ *)

\* Rows of gpio_to_pin_group / gpio_to_pin_number.
GPIO_MAX_PORTS == 6

\* Columns of gpio_to_pin_group / gpio_to_pin_number.
GPIO_MAX_PORT_BITS == 20

\* errno.h's EINVAL.
EINVAL == 22

\* Width of a register (uint32_t).
WordBits == 32

\* Registers of consecutive ports are one word apart, and each kind of
\* register (direction, mask, pins, ...) has room for this many ports.
RegStride == 32

\* The "unrouted" table entry: -1 stored in a uint8_t.
UNROUTED == 255

\* The pinmux function selected on GPIO5, and on every other port.
SCU_FUNCTION_PORT5 == 4

SCU_FUNCTION_DEFAULT == 0

\* The port whose pins need the alternate pinmux function.
SPECIAL_PORT == 5

(* ------------------------------------------------------------------ *)
(* Bounds of the model                                                  *)
(* ------------------------------------------------------------------ *)

\* Port arguments go up to GPIO_MAX_PORTS + MaxPortExcess.
MaxPortExcess == 1

\* Pin arguments go up to GPIO_MAX_PORT_BITS + MaxPinExcess.
MaxPinExcess == 1

\* API calls made on the fixture in one behaviour.
MaxCalls == 2

\* API calls the two execution contexts of ConcSpec start between them.
MaxConcCalls == 3

\* Masked calls (gpio_set_port_value, gpio_get_port_value) the two contexts
\* of MaskedSpec start between them.
MaxMaskedCalls == 2

AllBits == 0 .. (WordBits - 1)

\* The hardware ports whose registers the calls of this model can address:
\* the pin word of (port, pin) belongs to hardware port port + pin div 32.
HwPorts == 0 .. (GPIO_MAX_PORTS + MaxPortExcess + ((GPIO_MAX_PORT_BITS + MaxPinExcess) \div RegStride))

\* Every port and pin argument of the bounds: the fixtures of SpecRoute,
\* whose calls look the logical pin up in the topology tables.
AllPortArgs == 0 .. (GPIO_MAX_PORTS + MaxPortExcess)

AllPinArgs == 0 .. (GPIO_MAX_PORT_BITS + MaxPinExcess)

\* The fixtures of Spec, whose calls use the port only to select a register
\* and the pin only to select a bit: the first port and pin, and the ones
\* on either side of the limits.
PortArgs == {0} \cup ((GPIO_MAX_PORTS - 1) .. (GPIO_MAX_PORTS + MaxPortExcess))

PinArgs == {0} \cup ((GPIO_MAX_PORT_BITS - 1) .. (GPIO_MAX_PORT_BITS + MaxPinExcess))

\* Masks and values: every combination of two bits.  The driver treats all
\* bits of a word alike, and the other thirty are exercised by InitWords
\* and by the pin-level calls.
MaskArgs == SUBSET {0, 1}


\* gpio_set_pin_value's uint8_t value: zero, one, and another nonzero value.
ByteArgs == {0, 1, 255}

\* gpio_resistor_configuration_t, an opaque token to this driver.
ResistorModes == {"SCU_NO_PULL", "SCU_PULLDOWN", "SCU_PULLUP", "SCU_REPEATER"}

\* What a read outside the topology tables can yield: the sentinel or an id.
UndefinedBytes == {0, UNROUTED}

\* What a function that ends without a return statement can hand its caller.
UndefinedInts == {0, EINVAL}

\* What reads outside the tables can yield in a call on (port, pin):
\* <<from gpio_to_pin_group, from gpio_to_pin_number>>.  Nothing is read
\* outside the tables when the pin lies inside them.
JunkFor(port, pins) ==
    IF port < GPIO_MAX_PORTS /\ \A pin \in pins : pin < GPIO_MAX_PORT_BITS
    THEN {<<0, 0>>}
    ELSE UndefinedBytes \X UndefinedBytes

(* ------------------------------------------------------------------ *)
(* Words                                                                *)
(* ------------------------------------------------------------------ *)

BitNot(w) == AllBits \ w

BitXor(a, b) == (a \ b) \cup (b \ a)

\* The word holding a small unsigned number (EINVAL returned as uint32_t).
ToWord(n) == {b \in 0 .. 7 : (n \div (2 ^ b)) % 2 = 1}

AllOnes == AllBits

\* The outcomes of `1 << pin.pin` on an int of WordBits bits: defined below
\* the width; at or above it the shift is undefined, and a build yields
\* either 0 or the shift by (pin mod width).
Shl1(pin) == IF pin < WordBits THEN {{pin}} ELSE {{}, {pin % WordBits}}

(* ------------------------------------------------------------------ *)
(* State                                                                *)
(* ------------------------------------------------------------------ *)

VARIABLES
    tport,      \* fixture: the port every call of this behaviour is made on
    tpin,       \* fixture: the pin every pin-level call is made on
    direction,  \* direction register of each port (1 = output)
    mask,       \* mask register of each port
    pins,       \* pin-value register of each port
    before,     \* the registers of port tport as they were before the last call
    last,       \* the last API call: arguments, result, accesses it made
    prev,       \* the name of the API function called before the last one
    ncalls,     \* API calls made so far
    ctx,        \* ConcSpec, MaskedSpec: per execution context, the call in progress
    log         \* ConcSpec, MaskedSpec: the contexts' register accesses, in order

vars == <<tport, tpin, direction, mask, pins, before, last, prev, ncalls, ctx, log>>

\* The hardware as a call sees it, with the call's access counters at zero.
Hw == [direction |-> direction, mask |-> mask, pins |-> pins,
       writes |-> 0, reads |-> 0, scu |-> <<>>, tbl |-> 0, oob |-> 0]

(* ------------------------------------------------------------------ *)
(* Hardware: struct gpio_registers and the pin-word region              *)
(* ------------------------------------------------------------------ *)

\* reg->direction = w
HwWriteDirection(hw, port, w) ==
    [hw EXCEPT !.direction[port] = w, !.writes = @ + 1]

\* reg->mask = w
HwWriteMask(hw, port, w) ==
    [hw EXCEPT !.mask[port] = w, !.writes = @ + 1]

\* reg->masked_pins = w: only the bits the mask register selects are loaded.
HwWriteMaskedPins(hw, port, w) ==
    [hw EXCEPT !.pins[port] = (@ \ hw.mask[port]) \cup (w \cap hw.mask[port]),
               !.writes = @ + 1]

\* reg->set = w
HwWriteSet(hw, port, w) ==
    [hw EXCEPT !.pins[port] = @ \cup w, !.writes = @ + 1]

\* reg->clear = w
HwWriteClear(hw, port, w) ==
    [hw EXCEPT !.pins[port] = @ \ w, !.writes = @ + 1]

\* reg->toggle = w
HwWriteToggle(hw, port, w) ==
    [hw EXCEPT !.pins[port] = BitXor(@, w), !.writes = @ + 1]

\* A volatile load: counted, the registers are left as they are.
HwRead(hw) == [hw EXCEPT !.reads = @ + 1]

\* the value loaded from reg->masked_pins
HwMaskedPinsValue(hw, port) == hw.pins[port] \cap hw.mask[port]

\* gpio_get_pin_register: word (port * 32 + pin) of the pin-word region,
\* which is bit (index mod 32) of hardware port (index div 32).
PinWordPort(port, pin) == (port * RegStride + pin) \div RegStride

PinWordBit(port, pin) == (port * RegStride + pin) % RegStride

\* *pin_reg = value: zero clears the pin, anything else sets it.
HwWritePinWord(hw, port, pin, value) ==
    LET hp == PinWordPort(port, pin)
        b  == PinWordBit(port, pin)
    IN  [hw EXCEPT !.pins[hp] = IF value # 0 THEN @ \cup {b} ELSE @ \ {b},
                   !.writes = @ + 1]

\* the value loaded from *pin_reg: all ones when the pin is high, else 0
HwPinWordValue(hw, port, pin) ==
    IF PinWordBit(port, pin) \in hw.pins[PinWordPort(port, pin)]
    THEN AllOnes ELSE {}

(* ------------------------------------------------------------------ *)
(* Validation                                                           *)
(* ------------------------------------------------------------------ *)

validate_port(port) ==
    IF port > GPIO_MAX_PORTS THEN EINVAL ELSE 0

validate_port_and_pin(port, pin) ==
    IF validate_port(port) # 0 THEN EINVAL
    ELSE IF port > GPIO_MAX_PORT_BITS THEN EINVAL
    ELSE 0

\* What a driver function hands back: the hardware after it, its return
\* value (ret for int / uint8_t results, retw for uint32_t words), and
\* whether it left through a validation failure.
Out(hw, ret, retw, rejected) ==
    [hw |-> hw, ret |-> ret, retw |-> retw, rejected |-> rejected]

(* ------------------------------------------------------------------ *)
(* Port-level register operations                                       *)
(* ------------------------------------------------------------------ *)

gpio_set_port_direction(hw, port, m, output_mask) ==
    IF validate_port(port) # 0 THEN Out(hw, EINVAL, {}, TRUE)
    ELSE LET to_apply == (hw.direction[port] \cap BitNot(m)) \cup output_mask
         IN  Out(HwWriteDirection(HwRead(hw), port, to_apply), 0, {}, FALSE)

gpio_get_port_direction(hw, port) ==
    IF validate_port(port) # 0 THEN Out(hw, 0, {}, TRUE)
    ELSE Out(HwRead(hw), 0, hw.direction[port], FALSE)

gpio_set_port_value(hw, port, m, value) ==
    IF validate_port(port) # 0 THEN Out(hw, EINVAL, {}, TRUE)
    ELSE Out(HwWriteMaskedPins(HwWriteMask(hw, port, m), port, value), 0, {}, FALSE)

gpio_set_port_bits(hw, port, m) ==
    IF validate_port(port) # 0 THEN Out(hw, EINVAL, {}, TRUE)
    ELSE Out(HwWriteSet(hw, port, m), 0, {}, FALSE)

\* gpio_clear_port_bits done with the masked-write feature, as
\* gpio_set_port_value does it: two stores, the first one to the mask register.
gpio_clear_port_bits_masked(hw, port, m) ==
    IF validate_port(port) # 0 THEN Out(hw, EINVAL, {}, TRUE)
    ELSE Out(HwWriteMaskedPins(HwWriteMask(hw, port, m), port, {}), 0, {}, FALSE)

gpio_clear_port_bits(hw, port, m) ==
    IF validate_port(port) # 0 THEN Out(hw, EINVAL, {}, TRUE)
    ELSE Out(HwWriteClear(hw, port, m), 0, {}, FALSE)

\* gpio_toggle_port_bits storing to the set register, as the function it was
\* copied from does.
gpio_toggle_port_bits_sets(hw, port, m) ==
    IF validate_port(port) # 0 THEN Out(hw, EINVAL, {}, TRUE)
    ELSE Out(HwWriteSet(hw, port, m), 0, {}, FALSE)

gpio_toggle_port_bits(hw, port, m) ==
    IF validate_port(port) # 0 THEN Out(hw, EINVAL, {}, TRUE)
    ELSE Out(HwWriteToggle(hw, port, m), 0, {}, FALSE)

\* gpio_get_port_value without the store to the mask register.
gpio_get_port_value_stale_mask(hw, port, m) ==
    IF validate_port(port) # 0 THEN Out(hw, 0, ToWord(EINVAL), TRUE)
    ELSE Out(HwRead(hw), 0, HwMaskedPinsValue(hw, port), FALSE)

gpio_get_port_value(hw, port, m) ==
    IF validate_port(port) # 0 THEN Out(hw, 0, ToWord(EINVAL), TRUE)
    ELSE LET masked == HwWriteMask(hw, port, m)
         IN  Out(HwRead(masked), 0, HwMaskedPinsValue(masked, port), FALSE)

(* ------------------------------------------------------------------ *)
(* Pin-level register operations                                        *)
(* `bit` is the value the build gives `1 << pin.pin`, one of Shl1(pin). *)
(* ------------------------------------------------------------------ *)

\* The port's direction is loaded before the pin is validated.
gpio_get_pin_direction(hw, port, pin) ==
    LET loaded == gpio_get_port_direction(hw, port)
    IN  IF validate_port_and_pin(port, pin) # 0 THEN Out(loaded.hw, 0, {}, TRUE)
        ELSE Out(loaded.hw, 0, IF pin \in loaded.retw THEN {0} ELSE {}, FALSE)

\* gpio_set_pin_direction passing the pin's bit as output bits whatever
\* is_output is.
gpio_set_pin_direction_always_output(hw, port, pin, is_output, bit) ==
    IF validate_port_and_pin(port, pin) # 0 THEN Out(hw, EINVAL, {}, TRUE)
    ELSE gpio_set_port_direction(hw, port, bit, bit)

gpio_set_pin_direction(hw, port, pin, is_output, bit) ==
    IF validate_port_and_pin(port, pin) # 0 THEN Out(hw, EINVAL, {}, TRUE)
    ELSE gpio_set_port_direction(hw, port, bit, IF is_output THEN bit ELSE {})

gpio_set_pin_value(hw, port, pin, value) ==
    IF validate_port_and_pin(port, pin) # 0 THEN Out(hw, EINVAL, {}, TRUE)
    ELSE Out(HwWritePinWord(hw, port, pin, value), 0, {}, FALSE)

\* The result of the port-level call is dropped: gpio_set_pin returns 0.
gpio_set_pin(hw, port, pin, bit) ==
    IF validate_port_and_pin(port, pin) # 0 THEN Out(hw, EINVAL, {}, TRUE)
    ELSE Out(gpio_set_port_bits(hw, port, bit).hw, 0, {}, FALSE)

gpio_clear_pin(hw, port, pin, bit) ==
    IF validate_port_and_pin(port, pin) # 0 THEN Out(hw, EINVAL, {}, TRUE)
    ELSE Out(gpio_clear_port_bits(hw, port, bit).hw, 0, {}, FALSE)

gpio_toggle_pin(hw, port, pin, bit) ==
    IF validate_port_and_pin(port, pin) # 0 THEN Out(hw, EINVAL, {}, TRUE)
    ELSE Out(gpio_toggle_port_bits(hw, port, bit).hw, 0, {}, FALSE)

gpio_get_pin_value(hw, port, pin) ==
    IF validate_port_and_pin(port, pin) # 0 THEN Out(hw, EINVAL, {}, TRUE)
    ELSE Out(HwRead(hw), IF HwPinWordValue(hw, port, pin) # {} THEN 1 ELSE 0, {}, FALSE)

\* No validation at all: the pin word is loaded whatever the pin is.
gpio_fast_get_pin_value(hw, port, pin) ==
    Out(HwRead(hw), 0, HwPinWordValue(hw, port, pin), FALSE)

(* ------------------------------------------------------------------ *)
(* Topology tables: row = port, column = pin (both counted from 0 in    *)
(* the source, from 1 in these sequences)                               *)
(* ------------------------------------------------------------------ *)

gpio_to_pin_group ==
    << <<0, 0, 1, 1, 1, 6, 3, 2, 1, 1, 1, 1, 1, 1, 2, 1, UNROUTED, UNROUTED, UNROUTED, UNROUTED>>,
       <<1, 1, 1, 1, 1, 1, 1, 1, 1, 1, 2, 2, 2, 2, 3, 3, UNROUTED, UNROUTED, UNROUTED, UNROUTED>>,
       <<4, UNROUTED, 4, 4, 4, 4, 4, 5, UNROUTED, 5, 5, 5, 5, 5, 5, 5, UNROUTED, UNROUTED, UNROUTED, UNROUTED>>,
       <<6, 6, 6, 6, 6, 6, 6, UNROUTED, 7, 7, 7, UNROUTED, UNROUTED, UNROUTED, UNROUTED, 7, UNROUTED, UNROUTED, UNROUTED, UNROUTED>>,
       <<UNROUTED, UNROUTED, UNROUTED, UNROUTED, UNROUTED, UNROUTED, UNROUTED, UNROUTED, UNROUTED, UNROUTED, UNROUTED, 9, UNROUTED, UNROUTED, UNROUTED, UNROUTED, UNROUTED, UNROUTED, UNROUTED, UNROUTED>>,
       <<2, 2, 2, 2, 2, 2, 2, 2, 3, 3, 3, UNROUTED, 4, 4, 4, 6, 6, UNROUTED, 9, UNROUTED>> >>

gpio_to_pin_number ==
    << <<0, 1, 15, 16, 0, 6, 6, 7, 1, 2, 3, 4, 17, 18, 10, 20, UNROUTED, UNROUTED, UNROUTED, UNROUTED>>,
       <<7, 8, 9, 10, 11, 12, 13, 14, 5, 6, 9, 11, 12, 13, 4, 5, UNROUTED, UNROUTED, UNROUTED, UNROUTED>>,
       <<0, UNROUTED, 2, 3, 4, 5, 6, 7, UNROUTED, 0, 1, 2, 3, 4, 5, 6, UNROUTED, UNROUTED, UNROUTED, UNROUTED>>,
       <<1, 2, 3, 4, 5, 9, 10, UNROUTED, 0, 1, 2, UNROUTED, UNROUTED, UNROUTED, UNROUTED, 7, UNROUTED, UNROUTED, UNROUTED, UNROUTED>>,
       <<UNROUTED, UNROUTED, UNROUTED, UNROUTED, UNROUTED, UNROUTED, UNROUTED, UNROUTED, UNROUTED, UNROUTED, UNROUTED, 6, UNROUTED, UNROUTED, UNROUTED, UNROUTED, UNROUTED, UNROUTED, UNROUTED, UNROUTED>>,
       <<0, 1, 2, 3, 4, 5, 6, 8, 1, 2, 7, UNROUTED, 8, 9, 10, 7, 8, UNROUTED, 5, UNROUTED>> >>

\* table[port][pin].  Inside the table the element is read; outside it the
\* read is undefined and yields `junk`.  Either way a table read is counted,
\* and a read outside the table is counted as such.
TableRead(table, hw, port, pin, junk) ==
    IF port < GPIO_MAX_PORTS /\ pin < GPIO_MAX_PORT_BITS
    THEN Out([hw EXCEPT !.tbl = @ + 1], table[port + 1][pin + 1], {}, FALSE)
    ELSE Out([hw EXCEPT !.tbl = @ + 1, !.oob = @ + 1], junk, {}, FALSE)

gpio_get_group_number(hw, port, pin, junk) ==
    IF validate_port_and_pin(port, pin) # 0 THEN Out(hw, UNROUTED, {}, TRUE)
    ELSE TableRead(gpio_to_pin_group, hw, port, pin, junk)

\* gpio_get_pin_number reading the column after the pin's.
gpio_get_pin_number_next_column(hw, port, pin, junk) ==
    IF validate_port_and_pin(port, pin) # 0 THEN Out(hw, UNROUTED, {}, TRUE)
    ELSE TableRead(gpio_to_pin_number, hw, port, pin + 1, junk)

gpio_get_pin_number(hw, port, pin, junk) ==
    IF validate_port_and_pin(port, pin) # 0 THEN Out(hw, UNROUTED, {}, TRUE)
    ELSE TableRead(gpio_to_pin_number, hw, port, pin, junk)

(* ------------------------------------------------------------------ *)
(* Pinmux configuration                                                 *)
(* junk = <<jg, jp>>: what reads outside gpio_to_pin_group and outside  *)
(* gpio_to_pin_number yield during this call.                           *)
(* ------------------------------------------------------------------ *)

\* platform_scu_configure_pin_gpio(group, pin, function, resistor_mode),
\* recorded in the order of the calls.
ScuCall(hw, group, pin, function, resistor_mode) ==
    [hw EXCEPT !.scu = Append(@, [group |-> group, pin |-> pin,
                                  function |-> function, rmode |-> resistor_mode])]

\* The function selection with its two branches exchanged.
scu_function_of_exchanged(port) ==
    IF port = SPECIAL_PORT THEN SCU_FUNCTION_DEFAULT ELSE SCU_FUNCTION_PORT5

scu_function_of(port) ==
    IF port = SPECIAL_PORT THEN SCU_FUNCTION_PORT5 ELSE SCU_FUNCTION_DEFAULT

\* gpio_configure_pinmux_and_resistors without the test for unrouted pins.
gpio_configure_pinmux_and_resistors_untested(hw, port, pin, resistor_mode, junk) ==
    IF validate_port_and_pin(port, pin) # 0 THEN Out(hw, EINVAL, {}, TRUE)
    ELSE LET g == gpio_get_group_number(hw, port, pin, junk[1])
             n == gpio_get_pin_number(g.hw, port, pin, junk[2])
         IN  Out(ScuCall(n.hw, g.ret, n.ret, scu_function_of(port), resistor_mode),
                 0, {}, FALSE)

gpio_configure_pinmux_and_resistors(hw, port, pin, resistor_mode, junk) ==
    IF validate_port_and_pin(port, pin) # 0 THEN Out(hw, EINVAL, {}, TRUE)
    ELSE LET g == gpio_get_group_number(hw, port, pin, junk[1])
             n == gpio_get_pin_number(g.hw, port, pin, junk[2])
         IN  IF g.ret = UNROUTED \/ n.ret = UNROUTED
             THEN Out(n.hw, EINVAL, {}, TRUE)
             ELSE Out(ScuCall(n.hw, g.ret, n.ret, scu_function_of(port), resistor_mode),
                      0, {}, FALSE)

\* The function ends without a return statement: its caller gets `garbage`.
gpio_configure_pinmux(hw, port, pin, junk, garbage) ==
    LET inner == gpio_configure_pinmux_and_resistors(hw, port, pin, "SCU_NO_PULL", junk)
    IN  Out(inner.hw, garbage, {}, FALSE)

\* The loop of gpio_configure_port_pinmuxes, given up at the first pin that
\* is not routed.
RECURSIVE ConfigureFrom_until_failure(_, _, _, _)
ConfigureFrom_until_failure(hw, port, pin, junk) ==
    IF pin >= GPIO_MAX_PORT_BITS THEN hw
    ELSE LET tried == gpio_configure_pinmux(hw, port, pin, junk, 0)
         IN  IF Len(tried.hw.scu) = Len(hw.scu)
             THEN tried.hw
             ELSE ConfigureFrom_until_failure(tried.hw, port, pin + 1, junk)

\* The loop of gpio_configure_port_pinmuxes from `pin` up to the last pin.
\* The loop drops what gpio_configure_pinmux hands back, so both branches of
\* the inner test go on alike; the test only makes TLC evaluate one
\* iteration before it starts the next.
RECURSIVE ConfigureFrom(_, _, _, _)
ConfigureFrom(hw, port, pin, junk) ==
    IF pin >= GPIO_MAX_PORT_BITS THEN hw
    ELSE LET tried == gpio_configure_pinmux(hw, port, pin, junk, 0)
         IN  IF Len(tried.hw.scu) >= 0
             THEN ConfigureFrom(tried.hw, port, pin + 1, junk)
             ELSE ConfigureFrom(tried.hw, port, pin + 1, junk)

gpio_configure_port_pinmuxes(hw, port, junk) ==
    IF validate_port(port) # 0 THEN Out(hw, EINVAL, {}, TRUE)
    ELSE Out(ConfigureFrom(hw, port, 0, junk), 0, {}, FALSE)

(* ------------------------------------------------------------------ *)
(* The fixture: initial states and one action per API function          *)
(* ------------------------------------------------------------------ *)

\* Prior register contents: every register all zeroes or all ones.
InitWords == {{}, AllOnes}

NoCall ==
    [op |-> "none", port |-> 0, pin |-> 0, mask |-> {}, value |-> {},
     flag |-> FALSE, byte |-> 0, rmode |-> "none",
     ret |-> 0, retw |-> {}, rejected |-> FALSE,
     writes |-> 0, reads |-> 0, scu |-> <<>>, tbl |-> 0, oob |-> 0]

\* The execution contexts of ConcSpec: main-line code and an interrupt handler.
Contexts == {"main", "irq"}

NotInCall == [pc |-> "idle", op |-> "none", mask |-> {}]

Idle == [c \in Contexts |-> NotInCall]

\* The registers of one port.
RegsOf(port) ==
    [direction |-> direction[port], mask |-> mask[port], pins |-> pins[port]]

InitRegs ==
    /\ \E w \in InitWords :
          /\ direction = [p \in HwPorts |-> w]
          /\ mask = [p \in HwPorts |-> w]
          /\ pins = [p \in HwPorts |-> w]
    /\ before = RegsOf(tport)
    /\ last = NoCall
    /\ prev = NoCall.op
    /\ ncalls = 0
    /\ ctx = Idle
    /\ log = <<>>

Init ==
    /\ tport \in PortArgs
    /\ tpin \in PinArgs
    /\ InitRegs

\* The call `args` (the fields of `last` it sets) returned `out`.
Returned(args, out) ==
    /\ ncalls < MaxCalls
    /\ ncalls' = ncalls + 1
    /\ direction' = out.hw.direction
    /\ mask' = out.hw.mask
    /\ pins' = out.hw.pins
    /\ before' = RegsOf(tport)
    /\ prev' = last.op
    /\ last' = [args EXCEPT !.port = tport,
                            !.ret = out.ret, !.retw = out.retw,
                            !.rejected = out.rejected,
                            !.writes = out.hw.writes, !.reads = out.hw.reads,
                            !.scu = out.hw.scu, !.tbl = out.hw.tbl, !.oob = out.hw.oob]
    /\ UNCHANGED <<tport, tpin, ctx, log>>

Call(op) == [NoCall EXCEPT !.op = op]

PinCall(op) == [NoCall EXCEPT !.op = op, !.pin = tpin]

SetPortDirection ==
    \E m \in MaskArgs, o \in MaskArgs :
        Returned([Call("gpio_set_port_direction") EXCEPT !.mask = m, !.value = o],
                 gpio_set_port_direction(Hw, tport, m, o))

GetPortDirection ==
    Returned(Call("gpio_get_port_direction"), gpio_get_port_direction(Hw, tport))

SetPortValue ==
    \E m \in MaskArgs, v \in MaskArgs :
        Returned([Call("gpio_set_port_value") EXCEPT !.mask = m, !.value = v],
                 gpio_set_port_value(Hw, tport, m, v))

SetPortBits ==
    \E m \in MaskArgs :
        Returned([Call("gpio_set_port_bits") EXCEPT !.mask = m],
                 gpio_set_port_bits(Hw, tport, m))

ClearPortBits ==
    \E m \in MaskArgs :
        Returned([Call("gpio_clear_port_bits") EXCEPT !.mask = m],
                 gpio_clear_port_bits(Hw, tport, m))

TogglePortBits ==
    \E m \in MaskArgs :
        Returned([Call("gpio_toggle_port_bits") EXCEPT !.mask = m],
                 gpio_toggle_port_bits(Hw, tport, m))

GetPortValue ==
    \E m \in MaskArgs :
        Returned([Call("gpio_get_port_value") EXCEPT !.mask = m],
                 gpio_get_port_value(Hw, tport, m))

GetPinDirection ==
    Returned(PinCall("gpio_get_pin_direction"), gpio_get_pin_direction(Hw, tport, tpin))

SetPinDirection ==
    \E is_output \in BOOLEAN, bit \in Shl1(tpin) :
        Returned([PinCall("gpio_set_pin_direction") EXCEPT !.flag = is_output],
                 gpio_set_pin_direction(Hw, tport, tpin, is_output, bit))

SetPinValue ==
    \E value \in ByteArgs :
        Returned([PinCall("gpio_set_pin_value") EXCEPT !.byte = value],
                 gpio_set_pin_value(Hw, tport, tpin, value))

SetPin ==
    \E bit \in Shl1(tpin) :
        Returned(PinCall("gpio_set_pin"), gpio_set_pin(Hw, tport, tpin, bit))

ClearPin ==
    \E bit \in Shl1(tpin) :
        Returned(PinCall("gpio_clear_pin"), gpio_clear_pin(Hw, tport, tpin, bit))

TogglePin ==
    \E bit \in Shl1(tpin) :
        Returned(PinCall("gpio_toggle_pin"), gpio_toggle_pin(Hw, tport, tpin, bit))

GetPinValue ==
    Returned(PinCall("gpio_get_pin_value"), gpio_get_pin_value(Hw, tport, tpin))

FastGetPinValue ==
    Returned(PinCall("gpio_fast_get_pin_value"), gpio_fast_get_pin_value(Hw, tport, tpin))

GetGroupNumber ==
    \E junk \in JunkFor(tport, {tpin}) :
        Returned(PinCall("gpio_get_group_number"),
                 gpio_get_group_number(Hw, tport, tpin, junk[1]))

GetPinNumber ==
    \E junk \in JunkFor(tport, {tpin}) :
        Returned(PinCall("gpio_get_pin_number"),
                 gpio_get_pin_number(Hw, tport, tpin, junk[2]))

ConfigurePinmuxAndResistors ==
    \E r \in ResistorModes, junk \in JunkFor(tport, {tpin}) :
        Returned([PinCall("gpio_configure_pinmux_and_resistors") EXCEPT !.rmode = r],
                 gpio_configure_pinmux_and_resistors(Hw, tport, tpin, r, junk))

ConfigurePinmux ==
    \E junk \in JunkFor(tport, {tpin}), garbage \in UndefinedInts :
        Returned(PinCall("gpio_configure_pinmux"),
                 gpio_configure_pinmux(Hw, tport, tpin, junk, garbage))

ConfigurePortPinmuxes ==
    \E junk \in JunkFor(tport, 0 .. (GPIO_MAX_PORT_BITS - 1)) :
        Returned(Call("gpio_configure_port_pinmuxes"),
                 gpio_configure_port_pinmuxes(Hw, tport, junk))

NextRoute ==
    \/ GetGroupNumber
    \/ GetPinNumber
    \/ ConfigurePinmuxAndResistors
    \/ ConfigurePinmux
    \/ ConfigurePortPinmuxes

Next ==
    \/ SetPortDirection
    \/ GetPortDirection
    \/ SetPortValue
    \/ SetPortBits
    \/ ClearPortBits
    \/ TogglePortBits
    \/ GetPortValue
    \/ GetPinDirection
    \/ SetPinDirection
    \/ SetPinValue
    \/ SetPin
    \/ ClearPin
    \/ TogglePin
    \/ GetPinValue
    \/ FastGetPinValue

\* The register access layer: calls that load and store GPIO registers.
Spec == Init /\ [][Next]_vars

InitRoute ==
    /\ tport \in AllPortArgs
    /\ tpin \in AllPinArgs
    /\ InitRegs

\* The topology tables and the pinmux configuration, on every logical pin.
SpecRoute == InitRoute /\ [][NextRoute]_vars

(* ------------------------------------------------------------------ *)
(* Two execution contexts on one port, without mutual exclusion         *)
(* A step is what a context does up to and including its next volatile  *)
(* access; the contexts' steps interleave freely.                       *)
(* ------------------------------------------------------------------ *)

BitOps == {"gpio_set_port_bits", "gpio_clear_port_bits", "gpio_toggle_port_bits"}

\* The masks of the contexts' calls: two disjoint ones, and one that
\* overlaps both.
ConcMaskArgs == {{0}, {1}, {0, 1}}

\* The driver function `op` called with (port, m).
BitsCall(op, hw, port, m) ==
    CASE op = "gpio_set_port_bits"    -> gpio_set_port_bits(hw, port, m)
      [] op = "gpio_clear_port_bits"  -> gpio_clear_port_bits(hw, port, m)
      [] op = "gpio_toggle_port_bits" -> gpio_toggle_port_bits(hw, port, m)

\* Context c enters a set / clear / toggle call: the register block's address
\* is computed and the port validated.  A rejected call returns at once.
CtxBegin(c) ==
    /\ ctx[c].pc = "idle"
    /\ ncalls < MaxConcCalls
    /\ \E op \in BitOps, m \in ConcMaskArgs :
          ctx' = [ctx EXCEPT ![c] =
                    IF validate_port(tport) # 0
                    THEN NotInCall
                    ELSE [pc |-> "store", op |-> op, mask |-> m]]
    /\ ncalls' = ncalls + 1
    /\ UNCHANGED <<tport, tpin, direction, mask, pins, before, last, prev, log>>

\* Context c makes the accesses of its call and returns.  The log entry
\* tells how many accesses those were.
CtxStore(c) ==
    /\ ctx[c].pc = "store"
    /\ LET out == BitsCall(ctx[c].op, Hw, tport, ctx[c].mask)
       IN  /\ direction' = out.hw.direction
           /\ mask' = out.hw.mask
           /\ pins' = out.hw.pins
           /\ log' = Append(log, [ctx |-> c, op |-> ctx[c].op, mask |-> ctx[c].mask,
                                  writes |-> out.hw.writes, reads |-> out.hw.reads])
           /\ ctx' = [ctx EXCEPT ![c] = NotInCall]
    /\ UNCHANGED <<tport, tpin, before, last, prev, ncalls>>

InitConc ==
    /\ tport \in PortArgs
    /\ tpin = 0
    /\ InitRegs

NextConc == \E c \in Contexts : CtxBegin(c) \/ CtxStore(c)

ConcSpec == InitConc /\ [][NextConc]_vars

(* ------------------------------------------------------------------ *)
(* Two execution contexts making masked accesses to one port            *)
(* gpio_set_port_value and gpio_get_port_value make two volatile        *)
(* accesses each: the store to reg->mask, then the access to            *)
(* reg->masked_pins.  A step is one access; the steps interleave.       *)
(* ------------------------------------------------------------------ *)

MaskedOps == {"gpio_set_port_value", "gpio_get_port_value"}

\* The `value` arguments of gpio_set_port_value.
MaskedValueArgs == {{}, {0, 1}}

NotInMaskedCall == [pc |-> "idle", op |-> "none", mask |-> {}, value |-> {}]

\* The driver function `op` called with (port, m, value), start to end.
MaskedCall(op, hw, port, m, value) ==
    CASE op = "gpio_set_port_value" -> gpio_set_port_value(hw, port, m, value)
      [] op = "gpio_get_port_value" -> gpio_get_port_value(hw, port, m)

\* The second access of `op`: reg->masked_pins = value, or the load of
\* reg->masked_pins that is returned.
MaskedPinsAccess(op, hw, port, value) ==
    CASE op = "gpio_set_port_value" ->
            Out(HwWriteMaskedPins(hw, port, value), 0, {}, FALSE)
      [] op = "gpio_get_port_value" ->
            Out(HwRead(hw), 0, HwMaskedPinsValue(hw, port), FALSE)

\* One access, as the log keeps it: who made it for which call, the mask
\* register and the pin values right after it, and what the call returned.
MaskedEvent(c, kind, hw, retw) ==
    [ctx |-> c, kind |-> kind, op |-> ctx[c].op,
     mask |-> ctx[c].mask, value |-> ctx[c].value,
     filter |-> hw.mask[tport], pins |-> hw.pins[tport], retw |-> retw,
     writes |-> hw.writes, reads |-> hw.reads]

\* Context c enters a masked call: the register block's address is computed
\* and the port validated.  A rejected call returns at once.
MaskedBegin(c) ==
    /\ ctx[c].pc = "idle"
    /\ ncalls < MaxMaskedCalls
    /\ \E op \in MaskedOps, m \in ConcMaskArgs, value \in MaskedValueArgs :
          /\ (op = "gpio_get_port_value") => (value = {})
          /\ ctx' = [ctx EXCEPT ![c] =
                       IF validate_port(tport) # 0
                       THEN NotInMaskedCall
                       ELSE [pc |-> "mask", op |-> op, mask |-> m, value |-> value]]
    /\ ncalls' = ncalls + 1
    /\ UNCHANGED <<tport, tpin, direction, mask, pins, before, last, prev, log>>

\* reg->mask = mask, with the other context held off while it is between
\* its own two accesses.
MaskedStoreMask_locked(c) ==
    /\ ctx[c].pc = "mask"
    /\ \A d \in Contexts \ {c} : ctx[d].pc # "pins"
    /\ LET hw == HwWriteMask(Hw, tport, ctx[c].mask)
       IN  /\ mask' = hw.mask
           /\ log' = Append(log, MaskedEvent(c, "mask", hw, {}))
    /\ ctx' = [ctx EXCEPT ![c].pc = "pins"]
    /\ UNCHANGED <<tport, tpin, direction, pins, before, last, prev, ncalls>>

\* Context c makes the first access of its call: reg->mask = mask.
MaskedStoreMask(c) ==
    /\ ctx[c].pc = "mask"
    /\ LET hw == HwWriteMask(Hw, tport, ctx[c].mask)
       IN  /\ mask' = hw.mask
           /\ log' = Append(log, MaskedEvent(c, "mask", hw, {}))
    /\ ctx' = [ctx EXCEPT ![c].pc = "pins"]
    /\ UNCHANGED <<tport, tpin, direction, pins, before, last, prev, ncalls>>

\* Context c makes the second access of its call, to reg->masked_pins, and
\* returns.
MaskedAccess(c) ==
    /\ ctx[c].pc = "pins"
    /\ LET out == MaskedPinsAccess(ctx[c].op, Hw, tport, ctx[c].value)
       IN  /\ pins' = out.hw.pins
           /\ mask' = out.hw.mask
           /\ log' = Append(log, MaskedEvent(c, "pins", out.hw, out.retw))
    /\ ctx' = [ctx EXCEPT ![c] = NotInMaskedCall]
    /\ UNCHANGED <<tport, tpin, direction, before, last, prev, ncalls>>

InitMasked ==
    /\ tport \in PortArgs
    /\ tpin = 0
    /\ \E w \in InitWords :
          /\ direction = [p \in HwPorts |-> w]
          /\ mask = [p \in HwPorts |-> w]
          /\ pins = [p \in HwPorts |-> w]
    /\ before = RegsOf(tport)
    /\ last = NoCall
    /\ prev = NoCall.op
    /\ ncalls = 0
    /\ ctx = [c \in Contexts |-> NotInMaskedCall]
    /\ log = <<>>

NextMasked ==
    \E c \in Contexts : MaskedBegin(c) \/ MaskedStoreMask(c) \/ MaskedAccess(c)

MaskedSpec == InitMasked /\ [][NextMasked]_vars

(* ------------------------------------------------------------------ *)
(* Properties                                                           *)
(* ------------------------------------------------------------------ *)

PortLevelOps ==
    {"gpio_set_port_direction", "gpio_get_port_direction", "gpio_set_port_value",
     "gpio_set_port_bits", "gpio_clear_port_bits", "gpio_toggle_port_bits",
     "gpio_get_port_value", "gpio_configure_port_pinmuxes"}

\* Every pin-level operation but gpio_fast_get_pin_value.
PinLevelOps ==
    {"gpio_set_pin_direction", "gpio_get_pin_direction", "gpio_set_pin_value",
     "gpio_set_pin", "gpio_clear_pin", "gpio_toggle_pin", "gpio_get_pin_value",
     "gpio_configure_pinmux_and_resistors"}

\* The last call was made on a logical pin that lies inside the tables.
LastPinInRange == last.port < GPIO_MAX_PORTS /\ last.pin < GPIO_MAX_PORT_BITS

\* The topology tables' entry of the last call's pin is unrouted.
LastPinUnrouted ==
    \/ gpio_to_pin_group[last.port + 1][last.pin + 1] = UNROUTED
    \/ gpio_to_pin_number[last.port + 1][last.pin + 1] = UNROUTED

\* C1: a port-level operation called with port >= GPIO_MAX_PORTS (port =
\* GPIO_MAX_PORTS included) leaves through the validation failure and makes
\* no register write.
C1_InvalidPortRejected ==
    (last.op \in PortLevelOps /\ last.port >= GPIO_MAX_PORTS)
        => (last.rejected /\ last.writes = 0)

\* C2: a pin-level operation (gpio_fast_get_pin_value aside) called with
\* pin >= GPIO_MAX_PORT_BITS, on any port, returns the error indication and
\* makes no register access, neither a write nor a read.
C2_InvalidPinRejected ==
    (last.op \in PinLevelOps /\ last.pin >= GPIO_MAX_PORT_BITS)
        => (last.rejected /\ last.writes = 0 /\ last.reads = 0)

\* C3: gpio_configure_pinmux_and_resistors on an in-range logical pin whose
\* table entry is unrouted returns EINVAL and never calls
\* platform_scu_configure_pin_gpio.
C3_UnroutedNotConfigured ==
    (last.op = "gpio_configure_pinmux_and_resistors" /\ LastPinInRange /\ LastPinUnrouted)
        => (last.ret = EINVAL /\ last.rejected /\ last.scu = <<>>)

C3_Witness ==
    /\ last.op = "gpio_configure_pinmux_and_resistors"
    /\ last.port = 2 /\ last.pin = 1
    /\ LastPinUnrouted
    /\ last.ret = EINVAL

\* C4: gpio_configure_pinmux_and_resistors on a routed logical pin returns 0
\* and calls platform_scu_configure_pin_gpio exactly once, with the tables'
\* group and pin number, function 4 on port 5 and 0 on every other port, and
\* the resistor mode it was given; port 0 pin 2 gives (1, 15, 0, mode).
C4_RoutedConfiguredOnce ==
    (last.op = "gpio_configure_pinmux_and_resistors" /\ LastPinInRange /\ ~LastPinUnrouted)
        => /\ last.ret = 0
           /\ last.scu = << [group    |-> gpio_to_pin_group[last.port + 1][last.pin + 1],
                             pin      |-> gpio_to_pin_number[last.port + 1][last.pin + 1],
                             function |-> IF last.port = 5 THEN 4 ELSE 0,
                             rmode    |-> last.rmode] >>
           /\ (last.port = 0 /\ last.pin = 2)
                 => last.scu = << [group |-> 1, pin |-> 15, function |-> 0,
                                   rmode |-> last.rmode] >>

C4_Witness ==
    /\ last.op = "gpio_configure_pinmux_and_resistors"
    /\ last.port = 5 /\ last.pin = 18
    /\ last.rmode = "SCU_PULLUP"
    /\ last.scu = << [group |-> 9, pin |-> 5, function |-> 4, rmode |-> "SCU_PULLUP"] >>

\* C5: for a logical pin inside the tables, gpio_get_group_number and
\* gpio_get_pin_number return either both the sentinel 0xFF or both an id.
C5_TablesAgree ==
    /\ (last.op = "gpio_get_group_number" /\ LastPinInRange)
          => ((last.ret = UNROUTED)
                <=> (gpio_get_pin_number(Hw, last.port, last.pin, 0).ret = UNROUTED))
    /\ (last.op = "gpio_get_pin_number" /\ LastPinInRange)
          => ((last.ret = UNROUTED)
                <=> (gpio_get_group_number(Hw, last.port, last.pin, 0).ret = UNROUTED))

C5_Witness ==
    /\ last.op = "gpio_get_group_number"
    /\ prev = "gpio_get_pin_number"
    /\ last.port = 4 /\ last.pin = 11
    /\ last.ret = 9

\* C6: gpio_set_port_direction on a valid port leaves every bit of the
\* direction register that mask does not select as it was before the call.
C6_DirectionFrame ==
    (last.op = "gpio_set_port_direction" /\ last.port < GPIO_MAX_PORTS)
        => \A b \in AllBits \ last.mask :
               (b \in direction[last.port]) <=> (b \in before.direction)

\* C7: on a valid port, gpio_set_port_bits(p, m) immediately followed by
\* gpio_get_port_value(p, m) returns exactly m, and gpio_clear_port_bits(p, m)
\* immediately followed by gpio_get_port_value(p, m) returns 0 in the bits of m.
C7_SetClearReadBack ==
    [][ (/\ last'.op = "gpio_get_port_value"
         /\ last'.port < GPIO_MAX_PORTS
         /\ last'.mask = last.mask)
        => /\ (last.op = "gpio_set_port_bits") => (last'.retw = last.mask)
           /\ (last.op = "gpio_clear_port_bits") => (last'.retw \cap last.mask = {}) ]_vars

\* Only gpio_set_port_bits leaves pins = {0, 1} with the mask register and
\* the direction register still at all zeroes, and then its mask was {0, 1}.
C7_Witness ==
    /\ prev = "gpio_set_port_bits"
    /\ last.op = "gpio_get_port_value"
    /\ last.port < GPIO_MAX_PORTS
    /\ before = [direction |-> {}, mask |-> {}, pins |-> {0, 1}]
    /\ last.mask = {0, 1}
    /\ last.retw = {0, 1}

C9_PinDirectionReadBack ==
    [][ (/\ last.op = "gpio_set_pin_direction"
         /\ last'.op = "gpio_get_pin_direction"
         /\ last'.port < GPIO_MAX_PORTS
         /\ last'.pin < GPIO_MAX_PORT_BITS)
        => last'.retw = (IF last.flag THEN {0} ELSE {}) ]_vars

C9_Witness ==
    /\ prev = "gpio_set_pin_direction"
    /\ last.op = "gpio_get_pin_direction"
    /\ LastPinInRange
    /\ last.pin = GPIO_MAX_PORT_BITS - 1
    /\ before = [direction |-> {last.pin}, mask |-> {}, pins |-> {}]
    /\ last.retw = {0}

\* The pin values after the calls of `entries` were made one after another
\* on pin values v.
RECURSIVE AppliedInOrder(_, _)
AppliedInOrder(entries, v) ==
    IF entries = <<>> THEN v
    ELSE LET e == Head(entries)
         IN  AppliedInOrder(Tail(entries),
                 CASE e.op = "gpio_set_port_bits"    -> v \cup e.mask
                   [] e.op = "gpio_clear_port_bits"  -> v \ e.mask
                   [] e.op = "gpio_toggle_port_bits" -> (v \ e.mask) \cup (e.mask \ v))

\* C10: when two contexts interleave gpio_set_port_bits, gpio_clear_port_bits
\* and gpio_toggle_port_bits on one valid port without mutual exclusion, no
\* update is lost: every call that was started has stored or is about to,
\* each call is a single register store, the pin values are those of the
\* calls applied one after another in the order of their stores, and the
\* port's mask register is never changed.
C10_NoLostUpdate ==
    (tport < GPIO_MAX_PORTS)
        => /\ Len(log) + Cardinality({c \in Contexts : ctx[c].pc = "store"}) = ncalls
           /\ \A i \in 1 .. Len(log) : log[i].writes = 1 /\ log[i].reads = 0
           /\ pins[tport] = AppliedInOrder(log, before.pins)
           /\ mask[tport] = before.mask

C10_Witness ==
    /\ tport < GPIO_MAX_PORTS
    /\ Len(log) = 3
    /\ log[1].ctx = "irq" /\ log[1].op = "gpio_toggle_port_bits"
    /\ log[2].ctx = "main" /\ log[2].op = "gpio_set_port_bits"
    /\ log[3].ctx = "irq" /\ log[3].op = "gpio_clear_port_bits"
    /\ log[1].mask = {0, 1} /\ log[2].mask = {0} /\ log[3].mask = {1}
    /\ before.pins = AllOnes
    /\ pins[tport] = AllOnes \ {1}

\* The word the mask register holds after the first n accesses of the log:
\* that of the latest store to it, whichever context made the store.
MaskStoredBy(n) ==
    LET stores == {j \in 1 .. n : log[j].kind = "mask"}
    IN  IF stores = {} THEN before.mask
        ELSE log[CHOOSE j \in stores : \A k \in stores : k <= j].mask

\* The pin values the i-th access of the log found.
PinsBefore(i) == IF i = 1 THEN before.pins ELSE log[i - 1].pins

\* C11: the shared-mask hazard of gpio_set_port_value and
\* gpio_get_port_value.  When two contexts make masked calls on one port
\* the driver accepts, nothing holds a context's store to the mask register
\* back while the other context is between its own two accesses (no lock);
\* every access is a single load or store, and the mask register always
\* holds the word of the latest store to it (it is neither saved nor
\* restored); so each access to masked_pins is filtered by the mask of the
\* latest store by either context, and it has the effect of the whole
\* function called alone only when the same call's store came right before.
C11_SharedMaskHazard ==
    (validate_port(tport) = 0)
        => /\ mask[tport] = MaskStoredBy(Len(log))
           /\ \A c \in Contexts : (ctx[c].pc = "mask") => ENABLED MaskedStoreMask(c)
           /\ \A i \in 1 .. Len(log) :
                 LET e == log[i]
                     f == MaskStoredBy(i)
                     p == PinsBefore(i)
                 IN  /\ e.writes + e.reads = 1
                     /\ e.filter = f
                     /\ (e.kind = "mask") => (e.pins = p /\ e.writes = 1)
                     /\ (e.kind = "pins" /\ e.op = "gpio_get_port_value")
                           => (e.retw = p \cap f /\ e.pins = p /\ e.reads = 1)
                     /\ (e.kind = "pins" /\ e.op = "gpio_set_port_value")
                           => (e.pins = (p \ f) \cup (e.value \cap f) /\ e.writes = 1)
                     /\ (e.kind = "pins" /\ i > 1 /\ log[i - 1].ctx = e.ctx)
                           => LET alone == MaskedCall(e.op,
                                              [Hw EXCEPT !.pins[tport] = PinsBefore(i - 1)],
                                              tport, e.mask, e.value)
                              IN  /\ alone.hw.pins[tport] = e.pins
                                  /\ alone.hw.mask[tport] = e.filter
                                  /\ alone.retw = e.retw

\* The interrupt handler's mask store lands between the main line's mask
\* store and its load of masked_pins: gpio_get_port_value(port, 0x1) on pins
\* that are all high returns 0x2, the pins of the handler's mask.
C11_Witness ==
    /\ tport < GPIO_MAX_PORTS
    /\ before.pins = AllOnes
    /\ Len(log) = 3
    /\ log[1].ctx = "main" /\ log[1].kind = "mask" /\ log[1].mask = {0}
    /\ log[2].ctx = "irq" /\ log[2].kind = "mask" /\ log[2].mask = {1}
    /\ log[3].ctx = "main" /\ log[3].kind = "pins"
    /\ log[3].op = "gpio_get_port_value"
    /\ log[3].filter = {1} /\ log[3].retw = {1}
    /\ ctx["irq"].pc = "pins"

\* C12: gpio_get_group_number and gpio_get_pin_number read a table element
\* only for a pin inside the tables (port < GPIO_MAX_PORTS and
\* pin < GPIO_MAX_PORT_BITS); for any other pin they return the sentinel
\* 0xFF and read nothing.
C12_TableReadsInBounds ==
    (last.op \in {"gpio_get_group_number", "gpio_get_pin_number"})
        => /\ last.oob = 0
           /\ LastPinInRange => (last.tbl = 1)
           /\ (~LastPinInRange) => (last.tbl = 0 /\ last.ret = UNROUTED)

\* The pinmux calls that route every routed pin of `port` once, in
\* ascending order of the pins, with resistor mode SCU_NO_PULL.
RoutedInOrder(port) ==
    LET all == [i \in 1 .. GPIO_MAX_PORT_BITS |->
                   [group |-> gpio_to_pin_group[port + 1][i],
                    pin |-> gpio_to_pin_number[port + 1][i],
                    function |-> scu_function_of(port),
                    rmode |-> "SCU_NO_PULL"]]
        Routed(c) == c.group # UNROUTED /\ c.pin # UNROUTED
    IN  SelectSeq(all, Routed)

\* C13: gpio_configure_port_pinmuxes on a port below GPIO_MAX_PORTS tries
\* every pin 0 .. GPIO_MAX_PORT_BITS - 1 once (two table reads per pin, none
\* outside the tables), calls the pinmux collaborator exactly once for each
\* routed pin, in ascending order and always with SCU_NO_PULL, never for an
\* unrouted pin, and returns 0 however many pins were not routed.
C13_PortPinmuxesAll ==
    (last.op = "gpio_configure_port_pinmuxes" /\ last.port < GPIO_MAX_PORTS)
        => /\ last.ret = 0
           /\ ~last.rejected
           /\ last.scu = RoutedInOrder(last.port)
           /\ last.tbl = 2 * GPIO_MAX_PORT_BITS
           /\ last.oob = 0
           /\ last.writes = 0 /\ last.reads = 0

\* Port 5: some of its pins are routed (with function 4), others are not.
C13_Witness ==
    /\ last.op = "gpio_configure_port_pinmuxes"
    /\ last.port = SPECIAL_PORT
    /\ last.ret = 0
    /\ Len(last.scu) > 1
    /\ Len(last.scu) < GPIO_MAX_PORT_BITS
    /\ last.scu[1].function = SCU_FUNCTION_PORT5
    /\ last.scu[1].rmode = "SCU_NO_PULL"
    /\ \E i \in 1 .. (GPIO_MAX_PORT_BITS - 1) :
          /\ gpio_to_pin_group[last.port + 1][i] = UNROUTED
          /\ gpio_to_pin_group[last.port + 1][i + 1] # UNROUTED

====
